---- MODULE Spec2Model ----
(***************************************************************************)
(* Model of the Caffe CPU evaluator and its constructor                    *)
(* (scanner/evaluators/caffe/caffe_cpu_evaluator.cpp).                     *)
(*                                                                         *)
(* The evaluator owns a network (input blob, output blobs), a transformer  *)
(* and the per-output byte sizes; the driver owns the output buffers and   *)
(* calls configure / evaluate.  The network's arithmetic, the transformer  *)
(* and the profiler are collaborators: they are modelled by what they      *)
(* write, with symbolic values that keep track of where a byte came from.  *)
(***************************************************************************)
EXTENDS Integers, Sequences, FiniteSets, TLC

VARIABLES
  net_descriptor_,  \* CaffeCPUEvaluatorConstructor::net_descriptor_
  net_file,         \* the network definition the descriptor's model_path names
  driver_config,    \* the driver's EvaluatorConfig
  heap,             \* the buffers new_input_buffer has returned
  ev,               \* the CaffeCPUEvaluator built by new_evaluator, or NoEvaluator
  caffe_mode,       \* the process-wide caffe::Caffe mode
  out_bufs,         \* the output buffers the driver owns and hands to evaluate
  input_buffer,     \* the driver's input buffer as the latest evaluate call left it
  heap_overrun,     \* TRUE once a memcpy wrote outside a buffer
  profiler,         \* the intervals given to args.profiler.add_interval
  clock,            \* the value the next now() returns
  n_evals,          \* number of evaluate calls made so far
  pc,               \* "running", or "crashed" once the process died
  last              \* record of the most recent call (history)

vars == <<net_descriptor_, net_file, driver_config, heap, ev, caffe_mode, out_bufs,
          input_buffer, heap_overrun, profiler, clock, n_evals, pc, last>>

(***************************************************************************)
(* Bounds of the exploration.                                              *)
(***************************************************************************)
MaxBatchSize == 2
MaxEvals == 2
MaxBuffers == 2

(***************************************************************************)
(* Program constants.                                                      *)
(***************************************************************************)
SizeofFloat == 4
RGBChannels == 3

(***************************************************************************)
(* The data the driver and the network files supply.                       *)
(***************************************************************************)
\* The constructor's NetDescriptor together with the network definition
\* its model_path names: the declared shape of the input blob "data"
\* (batch, channels, height, width).  Output blob "fc7" holds 2 floats per
\* frame and "prob" 1.  "nodata" and "nolayer" name blobs the network
\* does not have.
Setups ==
  { [descriptor |-> [input_layer_name |-> "data",
                     output_layer_names |-> <<"fc7", "prob">>],
     net |-> [batch |-> 1, channels |-> 3, height |-> 2, width |-> 3]],
    [descriptor |-> [input_layer_name |-> "data",
                     output_layer_names |-> <<"prob">>],
     net |-> [batch |-> 2, channels |-> 1, height |-> 2, width |-> 3]],
    [descriptor |-> [input_layer_name |-> "nodata",
                     output_layer_names |-> <<"prob">>],
     net |-> [batch |-> 1, channels |-> 3, height |-> 2, width |-> 3]],
    [descriptor |-> [input_layer_name |-> "data",
                     output_layer_names |-> <<"prob", "nolayer">>],
     net |-> [batch |-> 1, channels |-> 3, height |-> 2, width |-> 3]] }

\* Device ids the driver may put in a config.
DeviceIds == {0, 1}

\* EvaluatorConfig values of the driver in the evaluator's state machine.
Configs ==
  [max_batch_size : {MaxBatchSize},
   max_frame_width : {2},
   max_frame_height : {1},
   device_id : DeviceIds]

\* DatasetItemMetadata values the driver may pass to configure.
Metadatas == [width : {1, 2}, height : {1}]

\* The geometry of a transformer that was never configured.
NoMetadata == [width |-> 0, height |-> 0]

\* metadata_ before the first configure: the constructor does not
\* initialise the member, whose integers hold whatever the memory held.
IndeterminateMetadatas == {NoMetadata, [width |-> 2, height |-> 1]}

\* batch_size arguments the driver may pass to evaluate, valid or not.
BatchSizes == 1..(MaxBatchSize + 1)


(***************************************************************************)
(* Symbolic memory contents.  A byte is <<kind, blob, item, j>>; an item   *)
(* (one transformed frame in the input blob) is <<width, height, pixel>>.  *)
(***************************************************************************)
ZeroItem == <<0, 0, 0>>
PoisonByte == <<"poison", "", ZeroItem, 0>>
ZeroByte == <<"zero", "", ZeroItem, 0>>
OutByte(name, item, j) == <<"out", name, item, j>>

Fill(n, x) == [j \in 1..n |-> x]

RECURSIVE Product(_)
Product(s) == IF s = <<>> THEN 1 ELSE Head(s) * Product(Tail(s))

(***************************************************************************)
(* caffe::Blob as the evaluator uses it.  data is the blob's memory: one   *)
(* entry per frame for the input blob, one per byte for an output blob;    *)
(* its length is the blob's capacity.                                      *)
(***************************************************************************)
NullBlob == [shape |-> <<>>, data |-> <<>>]
IsNull(blob) == blob.shape = <<>>

\* Blob::count(start_axis): the product of the dimensions from start_axis on.
BlobCount(blob, start_axis) ==
  Product(SubSeq(blob.shape, start_axis + 1, Len(blob.shape)))

\* Blob::Reshape.  unit is the number of data entries one frame takes and
\* zero the content of fresh memory.  Memory is kept when the new count
\* fits the capacity and the per-frame layout is the same; otherwise the
\* blob gets fresh memory.
BlobReshape(blob, shape, unit, zero) ==
  LET same_layout == Tail(blob.shape) = Tail(shape)
      need == shape[1] * unit
  IN [shape |-> shape,
      data |-> IF same_layout /\ need <= Len(blob.data)
               THEN blob.data
               ELSE Fill(need, zero)]

\* Net<float>(model_path, TEST): the blobs of a freshly loaded network.
LoadNet(nf) ==
  [data |-> [shape |-> <<nf.batch, nf.channels, nf.height, nf.width>>,
             data |-> Fill(nf.batch, ZeroItem)],
   fc7  |-> [shape |-> <<nf.batch, 2>>,
             data |-> Fill(nf.batch * 2 * SizeofFloat, ZeroByte)],
   prob |-> [shape |-> <<nf.batch, 1>>,
             data |-> Fill(nf.batch * 1 * SizeofFloat, ZeroByte)]]

\* Net::blob_by_name: a null pointer when the network has no such blob.
blob_by_name(net, name) ==
  IF name \in DOMAIN net THEN net[name] ELSE NullBlob

(***************************************************************************)
(* The input transformer (CaffeInputTransformer) and the raw input buffer. *)
(***************************************************************************)
\* av_image_get_buffer_size(AV_PIX_FMT_RGB24, width, height, 1)
FrameSize(metadata) == metadata.width * metadata.height * RGBChannels

\* An input buffer: capacity bytes, byte j holding seed*100 + j.  The
\* driver fills the buffer of its c-th evaluate call with seed c.
RawBuffer(seed, capacity) == [seed |-> seed, capacity |-> capacity]
RawAt(raw, j) == IF j <= raw.capacity THEN raw.seed * 100 + j ELSE 0

\* The driver's input buffer before it was filled for a call.
NoInput == RawBuffer(0, 0)

\* transformer_factory_->construct(config, descriptor): not yet configured.
TransformerConstruct(config, descriptor) == [geometry |-> NoMetadata]

\* transformer_->configure(metadata)
TransformerConfigure(transformer, metadata) == [geometry |-> metadata]

\* transformer_->transform_input(input_buffer, net_input_buffer, batch_size):
\* frame i of the raw buffer, cut by the transformer's geometry, becomes
\* entry i of the input blob's memory; later entries are not touched.
transform_input(transformer, raw, net_input_buffer, batch_size) ==
  [i \in 1..Len(net_input_buffer) |->
     IF i <= batch_size
     THEN <<transformer.geometry.width, transformer.geometry.height,
            RawAt(raw, (i - 1) * FrameSize(transformer.geometry) + 1)>>
     ELSE net_input_buffer[i]]

(***************************************************************************)
(* The network's forward pass.                                             *)
(***************************************************************************)
OutputBlobNames == {"fc7", "prob"}

\* Net::Forward: every layer reshapes its top blob to the batch of the
\* input blob and fills frame i of it from frame i of the input blob.
Forward(net) ==
  LET n == net.data.shape[1]
      Out(name) ==
        LET unit == BlobCount(net[name], 1) * SizeofFloat
            blob == BlobReshape(net[name], <<n>> \o Tail(net[name].shape),
                                unit, ZeroByte)
        IN [shape |-> blob.shape,
            data |-> [j \in 1..Len(blob.data) |->
                        IF j <= n * unit
                        THEN OutByte(name, net.data.data[((j - 1) \div unit) + 1],
                                     ((j - 1) % unit) + 1)
                        ELSE blob.data[j]]]
  IN [name \in DOMAIN net |->
        IF name \in OutputBlobNames THEN Out(name) ELSE net[name]]

(***************************************************************************)
(* CaffeCPUEvaluator.                                                      *)
(***************************************************************************)
NoEvaluator == [live |-> FALSE]

\* Mutant: the loop stops one name short.
OutputSizes_StopsShort(net, names) ==
  [i \in 1..(Len(names) - 1) |->
     BlobCount(blob_by_name(net, names[i]), 1) * SizeofFloat]

\* The constructor's loop over descriptor.output_layer_names.
OutputSizes(net, names) ==
  [i \in 1..Len(names) |->
     BlobCount(blob_by_name(net, names[i]), 1) * SizeofFloat]

\* TRUE when the constructor dereferences a null output blob.
ConstructorNullDeref(net, descriptor) ==
  \E i \in 1..Len(descriptor.output_layer_names) :
     IsNull(blob_by_name(net, descriptor.output_layer_names[i]))

\* CaffeCPUEvaluator::CaffeCPUEvaluator
CaffeCPUEvaluator(config, descriptor, transformer, device_id) ==
  LET net == LoadNet(net_file)
  IN [live |-> TRUE,
      config_ |-> config,
      descriptor_ |-> descriptor,
      transformer_ |-> transformer,
      device_id_ |-> device_id,
      metadata_ |-> NoMetadata,
      net_ |-> net,
      output_sizes_ |-> OutputSizes(net, descriptor.output_layer_names)]

\* The input blob the evaluator's methods look up.
InputBlob(E) == blob_by_name(E.net_, E.descriptor_.input_layer_name)

\* Mutant: configure reshapes on every call and passes the width where the
\* height belongs.
ConfigureBody_AlwaysReshapesSwapped(E, metadata) ==
  LET input_blob == InputBlob(E)
      net_input_height == input_blob.shape[3]
      net_input_width == input_blob.shape[4]
      reshaped ==
        BlobReshape(input_blob,
                    <<E.config_.max_batch_size, RGBChannels,
                      net_input_width, net_input_height>>,
                    1, ZeroItem)
  IN [E EXCEPT !.metadata_ = metadata,
               !.net_ = [E.net_ EXCEPT ![E.descriptor_.input_layer_name] = reshaped],
               !.transformer_ = TransformerConfigure(E.transformer_, metadata)]

\* configure, when the input blob exists.
ConfigureBody(E, metadata) ==
  LET input_blob == InputBlob(E)
      net_input_height == input_blob.shape[3]
      net_input_width == input_blob.shape[4]
      reshaped ==
        IF input_blob.shape[1] # E.config_.max_batch_size
        THEN BlobReshape(input_blob,
                         <<E.config_.max_batch_size, RGBChannels,
                           net_input_height, net_input_width>>,
                         1, ZeroItem)
        ELSE input_blob
  IN [E EXCEPT !.metadata_ = metadata,
               !.net_ = [E.net_ EXCEPT ![E.descriptor_.input_layer_name] = reshaped],
               !.transformer_ = TransformerConfigure(E.transformer_, metadata)]

\* Mutant: the input blob is reshaped only when the call's batch is larger
\* than the blob's.
ReshapeForBatch_GrowOnly(E, batch_size) ==
  LET input_blob == InputBlob(E)
      net_input_height == input_blob.shape[3]
      net_input_width == input_blob.shape[4]
      reshaped ==
        IF input_blob.shape[1] < batch_size
        THEN BlobReshape(input_blob,
                         <<batch_size, RGBChannels,
                           net_input_height, net_input_width>>,
                         1, ZeroItem)
        ELSE input_blob
  IN [E EXCEPT !.net_ = [E.net_ EXCEPT ![E.descriptor_.input_layer_name] = reshaped]]

\* evaluate, lines 80-89: the input blob takes the batch size of the call.
ReshapeForBatch(E, batch_size) ==
  LET input_blob == InputBlob(E)
      net_input_height == input_blob.shape[3]
      net_input_width == input_blob.shape[4]
      reshaped ==
        IF input_blob.shape[1] # batch_size
        THEN BlobReshape(input_blob,
                         <<batch_size, RGBChannels,
                           net_input_height, net_input_width>>,
                         1, ZeroItem)
        ELSE input_blob
  IN [E EXCEPT !.net_ = [E.net_ EXCEPT ![E.descriptor_.input_layer_name] = reshaped]]

\* evaluate, lines 91-95: the transformer fills the input blob.
TransformStep(E, raw, batch_size) ==
  LET name == E.descriptor_.input_layer_name
  IN [E EXCEPT !.net_ =
        [E.net_ EXCEPT ![name].data =
           transform_input(E.transformer_, raw, E.net_[name].data, batch_size)]]

\* Mutant: after the forward pass the per-output sizes are taken again,
\* from the whole of each output blob as the pass left it.
ForwardStep_RecomputesSizes(E) ==
  LET net == Forward(E.net_)
  IN [E EXCEPT !.net_ = net,
               !.output_sizes_ =
                  [i \in 1..Len(E.output_sizes_) |->
                     BlobCount(blob_by_name(net, E.descriptor_.output_layer_names[i]), 0)
                       * SizeofFloat]]

\* evaluate, line 100
ForwardStep(E) == [E EXCEPT !.net_ = Forward(E.net_)]

\* memcpy(dst, src, n) into a caller's buffer dst: the buffer afterwards,
\* the offsets written, and whether the copy ran past the buffer's end.
Memcpy(dst, src, n) ==
  [buf |-> [j \in 1..Len(dst) |->
              IF j <= n
              THEN IF j <= Len(src) THEN src[j] ELSE PoisonByte
              ELSE dst[j]],
   written |-> 1..n,
   overrun |-> n > Len(dst)]

\* Mutant: the copy takes the whole blob of a full batch.
CopyBytes_FullBatch(E, i, batch_size) ==
  E.config_.max_batch_size * E.output_sizes_[i]

\* The number of bytes evaluate copies for output i.
CopyBytes(E, i, batch_size) == batch_size * E.output_sizes_[i]

\* Mutant: buffer i is filled from the blob of the i-th name from the end.
SaveOutputs_ReversedNames(E, output_buffers, batch_size) ==
  LET n == Len(E.output_sizes_)
      Copy(i) ==
        Memcpy(IF i <= Len(output_buffers) THEN output_buffers[i] ELSE <<>>,
               blob_by_name(E.net_, E.descriptor_.output_layer_names[n + 1 - i]).data,
               CopyBytes(E, i, batch_size))
  IN [buffers |-> [i \in 1..Len(output_buffers) |->
                     IF i <= n THEN Copy(i).buf ELSE output_buffers[i]],
      written |-> [i \in 1..n |-> Copy(i).written],
      overrun |-> \E i \in 1..n : Copy(i).overrun]

\* evaluate, lines 104-111: one memcpy per entry of output_sizes_.  An
\* index past the end of output_buffers reads a pointer that was never
\* supplied: the copy lands outside every buffer.
SaveOutputs(E, output_buffers, batch_size) ==
  LET Copy(i) ==
        Memcpy(IF i <= Len(output_buffers) THEN output_buffers[i] ELSE <<>>,
               blob_by_name(E.net_, E.descriptor_.output_layer_names[i]).data,
               CopyBytes(E, i, batch_size))
      n == Len(E.output_sizes_)
  IN [buffers |-> [i \in 1..Len(output_buffers) |->
                     IF i <= n THEN Copy(i).buf ELSE output_buffers[i]],
      written |-> [i \in 1..n |-> Copy(i).written],
      overrun |-> \E i \in 1..n : Copy(i).overrun]

\* evaluate's accesses to the caller's input buffer: the pointer goes to
\* transform_input (line 95), which reads batch_size frames from it, and
\* nowhere else; nothing is stored through it.
InputBufferAfter(raw, batch_size) == raw

\* Mutant: the forward pass runs before the transformer fills the input
\* blob.
EvaluateBody_ForwardFirst(E, raw, output_buffers, batch_size) ==
  LET E1 == ReshapeForBatch(E, batch_size)
      E2 == ForwardStep(E1)
      E3 == TransformStep(E2, raw, batch_size)
  IN [E |-> E3, saved |-> SaveOutputs(E3, output_buffers, batch_size),
      input_buffer |-> InputBufferAfter(raw, batch_size)]

\* evaluate, when the input blob exists: the evaluator afterwards, what
\* the copies did and the input buffer afterwards.
EvaluateBody(E, raw, output_buffers, batch_size) ==
  LET frame_size == FrameSize(E.metadata_)
      E1 == ReshapeForBatch(E, batch_size)
      E2 == TransformStep(E1, raw, batch_size)
      E3 == ForwardStep(E2)
  IN [E |-> E3, saved |-> SaveOutputs(E3, output_buffers, batch_size),
      input_buffer |-> InputBufferAfter(raw, batch_size)]

(***************************************************************************)
(* The state machine: one constructor, the evaluator it builds for its     *)
(* single device, and the driver's calls.                                  *)
(***************************************************************************)
NoHeap == <<>>

\* The ways a dereference of a null boost::shared_ptr ends: the pointer's
\* own assertion aborts the process, or (assertions compiled out) the read
\* through the null pointer faults.
NullDerefOutcomes == {"abort", "segfault"}

NoCall ==
  [op |-> "none", metadata |-> NoMetadata, batch_size |-> 0, seed |-> 0,
   result |-> "ok", written |-> <<>>, repeat |-> FALSE, buffer |-> 0,
   value |-> <<>>]

Init ==
  /\ \E s \in Setups : net_descriptor_ = s.descriptor /\ net_file = s.net
  /\ driver_config \in Configs
  /\ heap = NoHeap
  /\ ev = NoEvaluator
  /\ caffe_mode \in {"CPU", "GPU"}
  /\ out_bufs = <<>>
  /\ input_buffer = NoInput
  /\ heap_overrun = FALSE
  /\ profiler = <<>>
  /\ clock = 0
  /\ n_evals = 0
  /\ pc = "running"
  /\ last = NoCall

\* CaffeCPUEvaluatorConstructor::get_number_of_devices
get_number_of_devices == 1

\* CaffeCPUEvaluatorConstructor::get_input_buffer_type
get_input_buffer_type == "CPU"

\* CaffeCPUEvaluatorConstructor::get_output_buffer_type
get_output_buffer_type == "CPU"

\* CaffeCPUEvaluatorConstructor::get_number_of_outputs
get_number_of_outputs == Len(net_descriptor_.output_layer_names)

\* Mutant: the names come back last to first.
get_output_names_Reversed ==
  [i \in 1..Len(net_descriptor_.output_layer_names) |->
     net_descriptor_.output_layer_names[Len(net_descriptor_.output_layer_names) + 1 - i]]

\* CaffeCPUEvaluatorConstructor::get_output_names
get_output_names == net_descriptor_.output_layer_names

\* A call of one of the constructor's queries by the driver: the call
\* record takes the returned value.
Query(op, value) ==
  /\ pc = "running"
  /\ last' = [NoCall EXCEPT !.op = op, !.value = value]
  /\ UNCHANGED <<net_descriptor_, net_file, driver_config, input_buffer,
                 heap, ev, caffe_mode, out_bufs, heap_overrun, profiler,
                 clock, n_evals, pc>>

GetNumberOfDevices == Query("get_number_of_devices", <<get_number_of_devices>>)

GetInputBufferType == Query("get_input_buffer_type", <<get_input_buffer_type>>)

GetOutputBufferType == Query("get_output_buffer_type", <<get_output_buffer_type>>)

GetNumberOfOutputs == Query("get_number_of_outputs", <<get_number_of_outputs>>)

GetOutputNames == Query("get_output_names", get_output_names)

\* device_type_to_caffe_mode(DeviceType::CPU)
device_type_to_caffe_mode == "CPU"

\* The device id new_evaluator hands to the evaluator's constructor.
NewEvaluatorDeviceId(cfg) == 0

\* CaffeCPUEvaluatorConstructor::new_evaluator(driver_config), with the
\* evaluator's constructor.  A descriptor naming an output blob the
\* network lacks makes the constructor dereference a null pointer.
NewEvaluator ==
  /\ pc = "running"
  /\ ~ev.live
  /\ caffe_mode' = device_type_to_caffe_mode
  /\ IF ConstructorNullDeref(LoadNet(net_file), net_descriptor_)
     THEN /\ pc' = "crashed"
          /\ ev' = ev
          /\ \E outcome \in NullDerefOutcomes :
               last' = [NoCall EXCEPT !.op = "new_evaluator", !.result = outcome]
     ELSE /\ pc' = pc
          /\ \E garbage \in IndeterminateMetadatas :
               ev' = [CaffeCPUEvaluator(driver_config, net_descriptor_,
                                        TransformerConstruct(driver_config,
                                                             net_descriptor_),
                                        NewEvaluatorDeviceId(driver_config))
                        EXCEPT !.metadata_ = garbage]
          /\ last' = [NoCall EXCEPT !.op = "new_evaluator"]
  /\ UNCHANGED <<net_descriptor_, net_file, driver_config, input_buffer,
                 heap, out_bufs, heap_overrun, profiler, clock, n_evals>>

\* CaffeCPUEvaluator::configure(metadata).  Without an input blob the
\* shape lookup dereferences a null pointer.
Configure(metadata) ==
  /\ pc = "running"
  /\ ev.live
  /\ IF IsNull(InputBlob(ev))
     THEN /\ ev' = [ev EXCEPT !.metadata_ = metadata]
          /\ pc' = "crashed"
     ELSE /\ ev' = ConfigureBody(ev, metadata)
          /\ pc' = pc
  /\ \E outcome \in (IF IsNull(InputBlob(ev)) THEN NullDerefOutcomes ELSE {"ok"}) :
       last' = [NoCall EXCEPT
                  !.op = "configure",
                  !.metadata = metadata,
                  !.result = outcome,
                  !.repeat = (last.op = "configure" /\ last.metadata = metadata)]
  /\ UNCHANGED <<net_descriptor_, net_file, driver_config, input_buffer,
                 heap, caffe_mode, out_bufs, heap_overrun, profiler, clock,
                 n_evals>>

\* The driver allocates the output buffers it will pass to evaluate, one
\* per output, buffer i with room for `frames` records of output i.  Until
\* it has done so it has no buffers to pass.
DriverAllocOutputs(frames) ==
  /\ pc = "running"
  /\ ev.live
  /\ out_bufs' = [i \in 1..Len(ev.output_sizes_) |->
                    Fill(frames * ev.output_sizes_[i], PoisonByte)]
  /\ last' = [NoCall EXCEPT !.op = "alloc_outputs"]
  /\ UNCHANGED <<net_descriptor_, net_file, driver_config, input_buffer,
                 heap, ev, caffe_mode, heap_overrun, profiler, clock,
                 n_evals, pc>>

\* The size of the input buffer the driver got from new_input_buffer.
InputCapacity(cfg) ==
  cfg.max_batch_size * cfg.max_frame_width * cfg.max_frame_height
    * RGBChannels

\* The two add_interval calls of evaluate; now() advances the clock.
EvaluateIntervals(t) ==
  << [name |-> "caffe:transform_input", start |-> t, end |-> t + 1],
     [name |-> "caffe:net", start |-> t + 2, end |-> t + 3] >>

\* CaffeCPUEvaluator::evaluate(input_buffer, output_buffers, batch_size),
\* called with the input buffer of the driver's next batch and the driver's
\* output buffers.  A copy that runs past a buffer either kills the process or
\* corrupts the heap and returns.
Evaluate(batch_size) ==
  /\ pc = "running"
  /\ ev.live
  /\ n_evals < MaxEvals
  /\ n_evals' = n_evals + 1
  /\ IF IsNull(InputBlob(ev))
     THEN /\ pc' = "crashed"
          /\ \E outcome \in NullDerefOutcomes :
               last' = [NoCall EXCEPT !.op = "evaluate", !.batch_size = batch_size,
                                      !.seed = n_evals + 1, !.result = outcome]
          /\ input_buffer' = RawBuffer(n_evals + 1, InputCapacity(ev.config_))
          /\ UNCHANGED <<ev, out_bufs, heap_overrun, profiler, clock>>
     ELSE LET raw == RawBuffer(n_evals + 1, InputCapacity(ev.config_))
              R == EvaluateBody(ev, raw, out_bufs, batch_size)
          IN /\ ev' = R.E
             /\ input_buffer' = R.input_buffer
             /\ out_bufs' = R.saved.buffers
             /\ profiler' = profiler \o EvaluateIntervals(clock)
             /\ clock' = clock + 4
             /\ heap_overrun' = (heap_overrun \/ R.saved.overrun)
             /\ pc' \in (IF R.saved.overrun THEN {"running", "crashed"}
                                            ELSE {"running"})
             /\ last' = [NoCall EXCEPT
                           !.op = "evaluate", !.batch_size = batch_size,
                           !.seed = n_evals + 1, !.written = R.saved.written,
                           !.result = IF pc' = "crashed" THEN "segfault" ELSE "ok"]
  /\ UNCHANGED <<net_descriptor_, net_file, driver_config, heap, caffe_mode>>

Next ==
  \/ NewEvaluator
  \/ \E metadata \in Metadatas : Configure(metadata)
  \/ \E frames \in 1..MaxBatchSize : DriverAllocOutputs(frames)
  \/ \E batch_size \in BatchSizes : Evaluate(batch_size)

Spec == Init /\ [][Next]_vars

(***************************************************************************)
(* The driver's calls with the constructor's queries among them, for a     *)
(* descriptor with two outputs that the network has.                       *)
(***************************************************************************)
InitQueries ==
  /\ \E s \in Setups :
       /\ Len(s.descriptor.output_layer_names) = 2
       /\ ~ConstructorNullDeref(LoadNet(s.net), s.descriptor)
       /\ net_descriptor_ = s.descriptor /\ net_file = s.net
  /\ driver_config \in {c \in Configs : c.device_id = 0}
  /\ heap = NoHeap
  /\ ev = NoEvaluator
  /\ caffe_mode = "CPU"
  /\ out_bufs = <<>>
  /\ input_buffer = NoInput
  /\ heap_overrun = FALSE
  /\ profiler = <<>>
  /\ clock = 0
  /\ n_evals = 0
  /\ pc = "running"
  /\ last = NoCall

NextQueries ==
  \/ NewEvaluator
  \/ \E metadata \in Metadatas : Configure(metadata)
  \/ \E frames \in 1..MaxBatchSize : DriverAllocOutputs(frames)
  \/ \E batch_size \in BatchSizes : Evaluate(batch_size)
  \/ GetNumberOfDevices
  \/ GetInputBufferType
  \/ GetOutputBufferType
  \/ GetNumberOfOutputs
  \/ GetOutputNames

SpecQueries == InitQueries /\ [][NextQueries]_vars

(***************************************************************************)
(* Buffer allocation by the constructor.  Sizes are computed as the        *)
(* program computes them, in fixed-width integers; numbers are held as     *)
(* little-endian sequences of base-256 digits so that values beyond the    *)
(* checker's own integers can be told apart.                               *)
(***************************************************************************)
IntBytes == 4      \* sizeof(int): the width of the config's fields
SizeTBytes == 8    \* sizeof(size_t)

RECURSIVE ToDigits(_)
ToDigits(n) == IF n = 0 THEN <<>> ELSE <<n % 256>> \o ToDigits(n \div 256)

RECURSIVE Normalize(_)
Normalize(d) ==
  IF d # <<>> /\ d[Len(d)] = 0 THEN Normalize(SubSeq(d, 1, Len(d) - 1)) ELSE d

DigitAt(d, i) == IF i <= Len(d) THEN d[i] ELSE 0

RECURSIVE AddDigits(_, _, _)
AddDigits(a, b, carry) ==
  IF a = <<>> /\ b = <<>>
  THEN ToDigits(carry)
  ELSE LET sum == DigitAt(a, 1) + DigitAt(b, 1) + carry
       IN <<sum % 256>> \o AddDigits(IF a = <<>> THEN a ELSE Tail(a),
                                     IF b = <<>> THEN b ELSE Tail(b),
                                     sum \div 256)

RECURSIVE MulDigit(_, _, _)
MulDigit(a, m, carry) ==
  IF a = <<>>
  THEN ToDigits(carry)
  ELSE LET p == Head(a) * m + carry
       IN <<p % 256>> \o MulDigit(Tail(a), m, p \div 256)

\* The mathematical product of two naturals.
RECURSIVE MulDigits(_, _)
MulDigits(a, b) ==
  IF b = <<>>
  THEN <<>>
  ELSE AddDigits(MulDigit(a, Head(b), 0), <<0>> \o MulDigits(a, Tail(b)), 0)

\* The low `bytes` bytes of a number: what a register of that width keeps.
Truncate(d, bytes) == [i \in 1..bytes |-> DigitAt(d, i)]

\* int * int as the machine computes it: the product's low 32 bits.
IntMul(a, b) == Truncate(MulDigits(a, b), IntBytes)

\* The conversion of an int to size_t: sign extension.
IntToSizeT(bits) ==
  bits \o Fill(SizeTBytes - IntBytes, IF bits[IntBytes] >= 128 THEN 255 ELSE 0)

\* max_batch_size * max_frame_width * max_frame_height * 3 * sizeof(char)
\* with every int product wrapping at 32 bits.
InputBufferSizeWrapped(cfg) ==
  IntToSizeT(IntMul(IntMul(IntMul(Truncate(ToDigits(cfg.max_batch_size), IntBytes),
                                  Truncate(ToDigits(cfg.max_frame_width), IntBytes)),
                           Truncate(ToDigits(cfg.max_frame_height), IntBytes)),
                    Truncate(ToDigits(RGBChannels), IntBytes)))

\* The mathematical product max_batch_size * max_frame_width *
\* max_frame_height * 3.
InputBufferSizeExact(cfg) ==
  Normalize(MulDigits(MulDigits(MulDigits(ToDigits(cfg.max_batch_size),
                                          ToDigits(cfg.max_frame_width)),
                                ToDigits(cfg.max_frame_height)),
                      ToDigits(RGBChannels)))

\* The sizes new_input_buffer may pass to new[].  Overflow of a signed int
\* product is undefined: the product either wraps at 32 bits or is carried
\* out in a 64-bit register.  Without overflow the two agree.
InputBufferSizes(cfg) ==
  { InputBufferSizeWrapped(cfg), Truncate(InputBufferSizeExact(cfg), SizeTBytes) }

\* new char[size] fails (std::bad_alloc) for a size with the top bit set.
AllocFails(size) == size[SizeTBytes] >= 128

\* CaffeCPUEvaluatorConstructor::new_input_buffer(driver_config)
NewInputBuffer ==
  /\ pc = "running"
  /\ Len(heap) < MaxBuffers
  /\ \E size \in InputBufferSizes(driver_config) :
       IF AllocFails(size)
       THEN /\ heap' = heap
            /\ last' = [NoCall EXCEPT !.op = "new_input_buffer",
                                      !.result = "bad_alloc"]
       ELSE /\ heap' = Append(heap, [status |-> "live", size |-> Normalize(size)])
            /\ last' = [NoCall EXCEPT !.op = "new_input_buffer",
                                      !.buffer = Len(heap) + 1]
  /\ UNCHANGED <<net_descriptor_, net_file, driver_config, input_buffer, ev,
                 caffe_mode, out_bufs, heap_overrun, profiler, clock,
                 n_evals, pc>>

\* CaffeCPUEvaluatorConstructor::delete_input_buffer(driver_config, buffer)
\* on a pointer new_input_buffer returned.  delete[] of a buffer already
\* released is undefined: the allocator aborts the process or its state is
\* damaged.
DeleteInputBuffer(buffer) ==
  /\ pc = "running"
  /\ buffer \in 1..Len(heap)
  /\ IF heap[buffer].status = "live"
     THEN /\ heap' = [heap EXCEPT ![buffer].status = "released"]
          /\ pc' = pc
     ELSE /\ heap' = [heap EXCEPT ![buffer].status = "released twice"]
          /\ pc' \in {"running", "crashed"}
  /\ last' = [NoCall EXCEPT !.op = "delete_input_buffer", !.buffer = buffer,
                            !.result = IF pc' = "crashed" THEN "abort" ELSE "ok"]
  /\ UNCHANGED <<net_descriptor_, net_file, driver_config, input_buffer, ev,
                 caffe_mode, out_bufs, heap_overrun, profiler, clock,
                 n_evals>>

\* Sample values of a config's max_batch_size, max_frame_width and
\* max_frame_height for the allocation.
SizeSamples == {1, 4, 100, 224, 256, 4096}

BufferConfigs ==
  [max_batch_size : SizeSamples,
   max_frame_width : SizeSamples,
   max_frame_height : SizeSamples,
   device_id : {0}]

InitBuffers ==
  /\ \E s \in Setups : net_descriptor_ = s.descriptor /\ net_file = s.net
  /\ driver_config \in BufferConfigs
  /\ heap = NoHeap
  /\ ev = NoEvaluator
  /\ caffe_mode = "CPU"
  /\ out_bufs = <<>>
  /\ input_buffer = NoInput
  /\ heap_overrun = FALSE
  /\ profiler = <<>>
  /\ clock = 0
  /\ n_evals = 0
  /\ pc = "running"
  /\ last = NoCall

NextBuffers ==
  \/ NewInputBuffer
  \/ \E buffer \in 1..MaxBuffers : DeleteInputBuffer(buffer)

SpecBuffers == InitBuffers /\ [][NextBuffers]_vars

(***************************************************************************)
(* Properties.                                                             *)
(***************************************************************************)
\* The most recent call was an evaluate that got past the input blob lookup.
EvaluateRan == last.op = "evaluate" /\ ev.live /\ ~IsNull(InputBlob(ev))

\* The size of one record of output i: the output blob's element count per
\* frame in the network definition, times the width of a float.
RecordBytes(i) ==
  BlobCount(blob_by_name(LoadNet(net_file), get_output_names[i]), 1) * SizeofFloat

\* The driver's buffers meet evaluate's precondition for batch_size: one
\* buffer per declared output, each with room for batch_size records.
BuffersSuffice(buffers, batch_size) ==
  /\ Len(buffers) = get_number_of_outputs
  /\ \A i \in 1..Len(buffers) : Len(buffers[i]) >= batch_size * RecordBytes(i)

NothingWritten == \A i \in 1..Len(last.written) : last.written[i] = {}

\* C1: an evaluate call with batch_size > max_batch_size fails with a
\* contract-violation error: it does not complete as a normal evaluation
\* and writes no output buffer.
C1_OversizedBatchRejected ==
  (last.op = "evaluate" /\ ev.live
     /\ last.batch_size > ev.config_.max_batch_size)
  => (last.result = "contract violation" /\ NothingWritten)

\* What a step that is such an evaluate call does to the buffers.
C2_Step ==
  (/\ last'.op = "evaluate" /\ n_evals' = n_evals + 1
   /\ ev.live /\ ~IsNull(InputBlob(ev))
   /\ last'.batch_size \in 1..ev.config_.max_batch_size
   /\ BuffersSuffice(out_bufs, last'.batch_size))
  => /\ Len(out_bufs') = Len(out_bufs)
     /\ Len(last'.written) = get_number_of_outputs
     /\ \A i \in 1..get_number_of_outputs :
          LET n == last'.batch_size * RecordBytes(i)
          IN /\ last'.written[i] = 1..n
             /\ Len(out_bufs'[i]) = Len(out_bufs[i])
             /\ \A j \in 1..Len(out_bufs[i]) :
                  j > n => out_bufs'[i][j] = out_bufs[i][j]

\* C2: an evaluate call with 0 < batch_size <= max_batch_size, given
\* buffers that meet its precondition, writes exactly the first
\* batch_size * record size bytes of every output buffer and leaves every
\* later byte of the buffer as it was, whatever calls came before.
C2_WritesExactlyBatchBytes == [][C2_Step]_vars

\* A ragged batch after a larger one: bytes of the earlier call's records
\* are still in a buffer beyond what the last call wrote.
C2_Witness ==
  /\ EvaluateRan /\ last.result = "ok" /\ ~heap_overrun /\ n_evals = 2
  /\ last.batch_size < ev.config_.max_batch_size
  /\ BuffersSuffice(out_bufs, last.batch_size)
  /\ \E i \in 1..Len(out_bufs) :
       \E j \in 1..Len(out_bufs[i]) :
          j > last.batch_size * RecordBytes(i) /\ out_bufs[i][j][1] = "out"

\* What the network computes for output `name` from frame f of the input
\* buffer of call number `seed`, under the transformer's geometry: byte b
\* of the record.
ExpectedByte(name, geometry, seed, capacity, f, b) ==
  OutByte(name,
          <<geometry.width, geometry.height,
            RawAt(RawBuffer(seed, capacity), (f - 1) * FrameSize(geometry) + 1)>>,
          b)

\* C3: after an evaluate call with a valid batch_size, record f of output
\* buffer i (f <= batch_size) is the network's output for the i-th declared
\* output layer computed from frame f of that call's input buffer.
C3_OrderPreserved ==
  (EvaluateRan /\ last.batch_size <= ev.config_.max_batch_size)
  => \A i \in 1..Len(out_bufs) :
       \A f \in 1..last.batch_size :
         \A b \in 1..RecordBytes(i) :
           LET j == (f - 1) * RecordBytes(i) + b
           IN j <= Len(out_bufs[i])
              => out_bufs[i][j] =
                   ExpectedByte(get_output_names[i], ev.transformer_.geometry,
                                last.seed, InputCapacity(ev.config_), f, b)

\* The second call of a run, with two frames and two outputs, into
\* buffers that hold all of it.
C3_Witness ==
  /\ EvaluateRan /\ last.result = "ok" /\ n_evals = 2
  /\ last.batch_size = 2 /\ last.batch_size <= ev.config_.max_batch_size
  /\ get_number_of_outputs = 2
  /\ ev.transformer_.geometry # NoMetadata
  /\ BuffersSuffice(out_bufs, last.batch_size)

\* C4: evaluate never writes past the end of a buffer it was given (nor
\* through a buffer pointer it was not given).
C4_NoWritePastCapacity == ~heap_overrun

\* C5: get_number_of_outputs() equals the length of get_output_names(),
\* and both equal the length of the evaluator's per-output size list, which
\* is the number of output buffers an evaluate call writes.
C5_OutputArity ==
  /\ get_number_of_outputs = Len(get_output_names)
  /\ ev.live => Len(ev.output_sizes_) = get_number_of_outputs
  /\ EvaluateRan => Len(last.written) = get_number_of_outputs
  /\ (EvaluateRan /\ BuffersSuffice(out_bufs, last.batch_size))
       => \A i \in 1..get_number_of_outputs : last.written[i] # {}

C5_Witness ==
  /\ EvaluateRan /\ last.result = "ok"
  /\ get_number_of_outputs = 2
  /\ BuffersSuffice(out_bufs, last.batch_size)

\* A step that is a configure call right after one with the same metadata.
C6_Step ==
  (/\ last.op = "configure" /\ last.result = "ok"
   /\ last'.op = "configure" /\ last'.metadata = last.metadata)
  => /\ ev' = ev
     /\ \A batch_size \in BatchSizes :
          EvaluateBody(ev', RawBuffer(n_evals' + 1, InputCapacity(ev'.config_)),
                       out_bufs', batch_size)
          = EvaluateBody(ev, RawBuffer(n_evals + 1, InputCapacity(ev.config_)),
                         out_bufs, batch_size)

\* C6: a configure call that follows a configure call with the same
\* metadata leaves the evaluator as the first one left it, so that any
\* evaluate call that follows does the same to the evaluator and to the
\* output buffers in both cases.
C6_ConfigureIdempotent == [][C6_Step]_vars

\* The same metadata configured twice in a row, after an evaluate call
\* with a ragged batch had changed the input blob's batch.
C6_Witness ==
  /\ last.op = "configure" /\ last.repeat /\ last.result = "ok"
  /\ n_evals >= 1

\* C7: a configure call on an evaluator whose network has no blob of the
\* descriptor's input layer name fails with a configuration error (the
\* process keeps running and the evaluator can refuse later calls).
C7_MissingInputIsConfigurationError ==
  (last.op = "configure" /\ ev.live /\ IsNull(InputBlob(ev)))
  => (last.result = "configuration error" /\ pc = "running")

\* C8: every evaluate call adds exactly two intervals to the profiler, the
\* transform interval and then the forward-pass interval, the first ending
\* before the second starts; and when the call is over the input blob has
\* the call's batch, holds the call's transformed frames, the output blobs
\* hold the network's outputs for them, and the buffers hold the copies:
\* reshape, transform, forward pass and copies ran in that order.
C8_TwoIntervalsInOrder ==
  (ev.live /\ ~IsNull(InputBlob(ev)))
  => /\ Len(profiler) = 2 * n_evals
     /\ \A c \in 1..n_evals :
          /\ profiler[2 * c - 1].name = "caffe:transform_input"
          /\ profiler[2 * c].name = "caffe:net"
          /\ profiler[2 * c - 1].start <= profiler[2 * c - 1].end
          /\ profiler[2 * c - 1].end <= profiler[2 * c].start
          /\ profiler[2 * c].start <= profiler[2 * c].end
          /\ c > 1 => profiler[2 * c - 2].end <= profiler[2 * c - 1].start
     /\ last.op = "evaluate" =>
          LET input_blob == InputBlob(ev)
              Frame(f) == <<ev.transformer_.geometry.width,
                            ev.transformer_.geometry.height,
                            RawAt(RawBuffer(last.seed, InputCapacity(ev.config_)),
                                  (f - 1) * FrameSize(ev.transformer_.geometry) + 1)>>
          IN /\ input_blob.shape[1] = last.batch_size
             /\ \A f \in 1..last.batch_size : input_blob.data[f] = Frame(f)
             /\ \A i \in 1..get_number_of_outputs :
                  LET blob == blob_by_name(ev.net_, get_output_names[i])
                  IN /\ blob.shape[1] = last.batch_size
                     /\ \A f \in 1..last.batch_size :
                          \A b \in 1..RecordBytes(i) :
                            blob.data[(f - 1) * RecordBytes(i) + b]
                              = OutByte(get_output_names[i], Frame(f), b)
                     /\ \A j \in 1..last.batch_size * RecordBytes(i) :
                          (i <= Len(out_bufs) /\ j <= Len(out_bufs[i]))
                             => out_bufs[i][j] = blob.data[j]

C8_Witness ==
  /\ EvaluateRan /\ last.result = "ok" /\ n_evals = 2
  /\ Len(profiler) = 4
  /\ ev.transformer_.geometry # NoMetadata
  /\ BuffersSuffice(out_bufs, last.batch_size)

\* C9: the evaluator new_evaluator returns is bound to the device id of
\* the config it was built with.
C9_DeviceIdFromConfig ==
  ev.live => ev.device_id_ = ev.config_.device_id

\* C10: the buffer new_input_buffer returns has exactly max_batch_size *
\* max_frame_width * max_frame_height * 3 bytes.
C10_InputBufferSizeExact ==
  (last.op = "new_input_buffer" /\ last.result = "ok")
  => heap[last.buffer].size = InputBufferSizeExact(driver_config)

\* The buffers of the heap that are allocated and not released.
LiveBuffers(h) == {b \in 1..Len(h) : h[b].status = "live"}

\* What a step that is a delete_input_buffer call does to the heap.
C11_Step ==
  (last'.op = "delete_input_buffer" /\ last'.buffer \in 1..Len(heap))
  => IF heap[last'.buffer].status = "live"
     THEN /\ LiveBuffers(heap') = LiveBuffers(heap) \ {last'.buffer}
          /\ last'.result = "ok"
     ELSE /\ heap' = heap
          /\ last'.result = "double release"

\* C11: delete_input_buffer on a buffer new_input_buffer returned takes
\* exactly that buffer out of the set of live buffers, so that the pair
\* leaves the set as it was; a second delete_input_buffer on the same
\* buffer is reported as an error and releases nothing.
C11_BufferLifecycle == [][C11_Step]_vars

\* C12: no step of an evaluator (its construction, configure, evaluate)
\* changes the mode of caffe::Caffe, the state every evaluator of the
\* process runs under: a mode selected before an evaluator was built is
\* still the mode afterwards.
C12_NoSharedModeMutation == [][caffe_mode' = caffe_mode]_vars

\* C13: right after a configure call the input blob's batch dimension is
\* max_batch_size; right after an evaluate call it is the call's
\* batch_size, the forward pass ran with that batch (every output blob has
\* it), and for a call with batch_size <= max_batch_size it lies in
\* 1..max_batch_size, whatever the batch sizes of the calls before.
C13_BatchDimensionTracks ==
  (ev.live /\ ~IsNull(InputBlob(ev)))
  => /\ last.op = "configure"
          => InputBlob(ev).shape[1] = ev.config_.max_batch_size
     /\ last.op = "evaluate"
          => /\ InputBlob(ev).shape[1] = last.batch_size
             /\ \A i \in 1..get_number_of_outputs :
                  blob_by_name(ev.net_, get_output_names[i]).shape[1]
                    = last.batch_size
             /\ last.batch_size <= ev.config_.max_batch_size
                  => InputBlob(ev).shape[1] \in 1..ev.config_.max_batch_size

\* The batch shrank from one evaluate call to the next: the second call
\* had one frame, and the input blob's memory still holds the second
\* frame of the first call.
C13_Witness ==
  /\ EvaluateRan /\ last.result = "ok" /\ n_evals = 2
  /\ last.batch_size = 1
  /\ Len(InputBlob(ev).data) >= 2
  /\ InputBlob(ev).data[2][3] \div 100 = 1

\* C14: the input blob's channels, height and width are always the ones
\* the network definition declares: configure and evaluate change nothing
\* of the blob's shape but the batch dimension.
C14_InputGeometryFixed ==
  (ev.live /\ ~IsNull(InputBlob(ev)))
  => Tail(InputBlob(ev).shape)
       = <<net_file.channels, net_file.height, net_file.width>>

\* configure has run on the evaluator: its transformer has a geometry.
Configured(E) == E.transformer_.geometry # NoMetadata

\* C15: an evaluate call runs only on a configured evaluator; the metadata
\* the evaluator stores is then the geometry its transformer is configured
\* with, and the frames the call puts into the input blob are cut with
\* that geometry, the one of the most recent configure.
C15_EvaluateOnlyWhenConfigured ==
  EvaluateRan
  => /\ Configured(ev)
     /\ ev.metadata_ = ev.transformer_.geometry
     /\ \A f \in 1..last.batch_size :
          f <= Len(InputBlob(ev).data)
            => /\ InputBlob(ev).data[f][1] = ev.metadata_.width
               /\ InputBlob(ev).data[f][2] = ev.metadata_.height

\* C16: the evaluator's per-output sizes are, at every moment of its life,
\* the ones computed at construction: one per declared output name, in
\* order, each the output blob's element count per frame times the width
\* of a float; and an evaluate call copies batch_size times that size for
\* each output, whatever the batches and reshapes before it.
C16_OutputSizesFixed ==
  ev.live
  => /\ ev.output_sizes_
          = [i \in 1..get_number_of_outputs |-> RecordBytes(i)]
     /\ EvaluateRan
          => \A i \in 1..get_number_of_outputs :
               last.written[i] = 1..(last.batch_size * RecordBytes(i))

\* A one-frame call after a larger one on a network declared with batch
\* 1: the first output blob's memory was grown by the earlier call.
C16_Witness ==
  /\ EvaluateRan /\ last.result = "ok" /\ n_evals = 2
  /\ net_file.batch = 1 /\ last.batch_size = 1
  /\ get_number_of_outputs = 2
  /\ Len(blob_by_name(ev.net_, get_output_names[1]).data) > RecordBytes(1)

QueryOps ==
  {"get_number_of_devices", "get_input_buffer_type", "get_output_buffer_type",
   "get_number_of_outputs", "get_output_names"}

\* What a step that is a query, or an evaluate call that wrote inside its
\* buffers, does.
C17_Step ==
  /\ last'.op \in QueryOps
       => /\ UNCHANGED <<net_descriptor_, net_file, driver_config, heap, ev,
                         caffe_mode, out_bufs, input_buffer, heap_overrun,
                         profiler, clock, n_evals, pc>>
          /\ last'.op = "get_number_of_devices" => last'.value = <<1>>
          /\ last'.op = "get_input_buffer_type" => last'.value = <<"CPU">>
          /\ last'.op = "get_output_buffer_type" => last'.value = <<"CPU">>
          /\ last'.op = "get_number_of_outputs"
               => last'.value = <<Len(net_descriptor_.output_layer_names)>>
          /\ last'.op = "get_output_names"
               => last'.value = net_descriptor_.output_layer_names
  /\ (last'.op = "evaluate" /\ n_evals' = n_evals + 1 /\ ~heap_overrun')
       => input_buffer' = RawBuffer(last'.seed, InputCapacity(driver_config))

\* C17: each of the constructor's queries leaves the constructor, the
\* evaluator and every buffer as they were and returns 1 device, CPU
\* buffers, the number of the descriptor's output names and the names
\* themselves, whatever ran before; and when an evaluate call that kept its
\* writes inside the output buffers returns, the input buffer holds what
\* the driver put into it.
C17_QueriesPureInputReadOnly == [][C17_Step]_vars

\* get_output_names was asked after two evaluate calls and a configure.
C17_Witness ==
  /\ last.op = "get_output_names" /\ Len(last.value) = 2
  /\ n_evals = 2 /\ ~heap_overrun /\ Configured(ev)
  /\ input_buffer = RawBuffer(2, InputCapacity(driver_config))

====
